---- MODULE Spec2Model ----
(***************************************************************************)
(* Process Dashboard API: the run-status state machine of ProcessRun and   *)
(* the step-run update / rerun operations that drive it.                   *)
(*                                                                         *)
(* The database rows are the state.  Every transition of the model is one  *)
(* commit of a handler, so every state of the model is a committed state   *)
(* a reader can observe.                                                   *)
(*                                                                         *)
(* app/models/events.py defines register_events(), whose before_commit     *)
(* handler would re-derive run statuses.  No source file calls             *)
(* register_events(), and the handler calls ProcessRun                     *)
(* .update_status_from_steps, a method ProcessRun does not define; commits *)
(* therefore run no status hook in this model.                             *)
(*                                                                         *)
(* The data-retention part models the process_run table: run creation      *)
(* under the process's retention policy, neutralization of one run, the    *)
(* retention sweep, soft-delete and restore.  Times of that part count     *)
(* days.                                                                   *)
(***************************************************************************)
EXTENDS Integers, Sequences, FiniteSets, TLC

\* run is the ProcessRun row the step-runs in step_runs belong to (the row
\* with id 1), runs the other rows of the process_run table in id order,
\* process the Process row all of them belong to.
VARIABLES run, step_runs, now, pc, response, runs, process

vars == <<run, step_runs, now, pc, response, runs, process>>

(* ------------------------------ bounds -------------------------------- *)

\* Step-runs of the run in the system specification.
NumSteps == 2

\* Longest step-run collection handed to update_status on its own.
MaxSteps == 2

\* Clock values are 1..MaxClock.
MaxClock == 2

\* max_retries value carried by the rerunnable step template.
TemplateMaxRetries == 1

(* ------------------------------ values -------------------------------- *)

\* Optional values: None is the empty tuple, a present value v is <<v>>.
None == <<>>

Some(v) == <<v>>

StepRunStatus == {"pending", "running", "success", "failed", "cancelled", "optional"}

ProcessRunStatus == {"pending", "running", "completed", "failed", "cancelled"}

\* RerunResult values of the adapter contract.
RerunResult == {"success", "failure", "not_supported", "source_error"}

\* ProcessStepRunBase.max_reruns default, and the default of
\* rerun_config.get("max_retries", 3).
DefaultMaxReruns == 3

Times == 1..MaxClock

(* ----------------------- ProcessRun.update_status ---------------------- *)

terminal_statuses == {"completed", "failed", "cancelled"}

non_terminal_statuses == {"pending", "running"}

\* The statuses of a step-run collection, in order.
StepStatuses(steps) == [i \in DOMAIN steps |-> steps[i].status]

InSeq(x, s) == \E i \in DOMAIN s : s[i] = x

blocking_statuses == {"pending", "running", "failed", "cancelled"}

\* A completeness test without the at-least-one-success requirement.
_all_required_steps_complete_NoSuccessNeeded(step_statuses) ==
    ~ \E i \in DOMAIN step_statuses : step_statuses[i] \in blocking_statuses

_all_required_steps_complete(step_statuses) ==
    IF \E i \in DOMAIN step_statuses : step_statuses[i] \in blocking_statuses
    THEN FALSE
    ELSE InSeq("success", step_statuses)

\* Timestamp bookkeeping that stamps finished_at on every terminal result.
_update_finished_at_AlwaysStamp(r, previous_status, new_status, t) ==
    IF new_status \in terminal_statuses
    THEN [r EXCEPT !.finished_at = Some(t)]
    ELSE [r EXCEPT !.finished_at = None]

\* finished_at kept when a finished run becomes active again.
_update_finished_at_KeepOnReopen(r, previous_status, new_status, t) ==
    LET r1 == IF /\ previous_status \in non_terminal_statuses
                 /\ new_status \in terminal_statuses
                 /\ r.finished_at = None
              THEN [r EXCEPT !.finished_at = Some(t)]
              ELSE r
    IN IF /\ previous_status = "pending"
          /\ new_status = "running"
          /\ r1.started_at = None
       THEN [r1 EXCEPT !.started_at = Some(t)]
       ELSE r1

_update_finished_at(r, previous_status, new_status, t) ==
    LET r1 == IF /\ previous_status \in non_terminal_statuses
                 /\ new_status \in terminal_statuses
                 /\ r.finished_at = None
              THEN [r EXCEPT !.finished_at = Some(t)]
              ELSE IF /\ previous_status \in terminal_statuses
                      /\ new_status \in non_terminal_statuses
                   THEN [r EXCEPT !.finished_at = None]
                   ELSE r
    IN IF /\ previous_status = "pending"
          /\ new_status = "running"
          /\ r1.started_at = None
       THEN [r1 EXCEPT !.started_at = Some(t)]
       ELSE r1

\* The running-before-failed order of an if/elif chain.
DerivedStatus_RunningFirst(step_statuses) ==
    IF InSeq("running", step_statuses) THEN "running"
    ELSE IF InSeq("failed", step_statuses) THEN "failed"
    ELSE IF InSeq("cancelled", step_statuses) THEN "cancelled"
    ELSE IF _all_required_steps_complete(step_statuses) THEN "completed"
    ELSE IF InSeq("pending", step_statuses) THEN "running"
    ELSE "pending"

\* A chain whose pending branch leaves the run pending.
DerivedStatus_PendingStays(step_statuses) ==
    IF InSeq("failed", step_statuses) THEN "failed"
    ELSE IF InSeq("cancelled", step_statuses) THEN "cancelled"
    ELSE IF InSeq("running", step_statuses) THEN "running"
    ELSE IF _all_required_steps_complete(step_statuses) THEN "completed"
    ELSE "pending"

\* The if/elif chain of update_status over a non-empty status list.
DerivedStatus(step_statuses) ==
    IF InSeq("failed", step_statuses) THEN "failed"
    ELSE IF InSeq("cancelled", step_statuses) THEN "cancelled"
    ELSE IF InSeq("running", step_statuses) THEN "running"
    ELSE IF _all_required_steps_complete(step_statuses) THEN "completed"
    ELSE IF InSeq("pending", step_statuses) THEN "running"
    ELSE "pending"

\* run.update_status() at time t, steps being run.steps.
update_status(r, steps, t) ==
    IF Len(steps) = 0
    THEN [r EXCEPT !.status = "pending"]
    ELSE IF r.status = "cancelled"
    THEN r
    ELSE LET new_status == DerivedStatus(StepStatuses(steps))
         IN _update_finished_at([r EXCEPT !.status = new_status],
                                r.status, new_status, t)

(* ------------------------------ records -------------------------------- *)

\* rerun_config is a JSON object; the model keeps the two keys the code reads,
\* an absent key being None.
EmptyConfig == [max_retries |-> None, workitem_id |-> None]

\* A ProcessStepRun row with the column defaults of ProcessStepRunBase.
NewStepRun(can_rerun, rerun_config, max_reruns) ==
    [status |-> "pending", started_at |-> None, finished_at |-> None,
     failure |-> None, can_rerun |-> can_rerun, rerun_config |-> rerun_config,
     rerun_count |-> 0, max_reruns |-> max_reruns, deleted_at |-> None]

\* A ProcessRun row with the column defaults of ProcessRunBase.
NewRun == [status |-> "pending", started_at |-> None, finished_at |-> None]

NoResponse == [op |-> "none"]

\* A Process row with the column default of ProcessBase.retention_months.
NewProcess == [retention_months |-> None]

(* ------------------- update_status applied on its own ------------------ *)

\* Step-run rows that differ in status only.
StepRunWithStatus(s) ==
    [NewStepRun(FALSE, EmptyConfig, DefaultMaxReruns) EXCEPT !.status = s]

StepCollections ==
    UNION {[1..n -> {StepRunWithStatus(s) : s \in StepRunStatus}] : n \in 0..MaxSteps}

RunStates ==
    [status : ProcessRunStatus,
     started_at : {None} \cup {Some(t) : t \in Times},
     finished_at : {None} \cup {Some(t) : t \in Times}]

InitDerive ==
    /\ run \in RunStates
    /\ step_runs \in StepCollections
    /\ now = 1
    /\ pc = "idle"
    /\ response = NoResponse
    /\ runs = <<>>
    /\ process = NewProcess

\* One call of run.update_status(); the clock may have advanced before it.
UpdateStatusCall ==
    /\ \E t \in Times :
        /\ t >= now
        /\ now' = t
        /\ run' = update_status(run, step_runs, t)
    /\ response' = [op |-> "update_status", prev |-> run,
                    calls |-> IF response.op = "update_status"
                              THEN 2 ELSE 1]
    /\ UNCHANGED <<step_runs, pc, runs, process>>

NextDerive == UpdateStatusCall

SpecDerive == InitDerive /\ [][NextDerive]_vars

(* ------------------------- step templates ------------------------------ *)

\* rerun_config of a rerunnable ProcessStep that names a workitem.
WorkitemConfig ==
    [max_retries |-> Some(TemplateMaxRetries), workitem_id |-> Some("wi")]

\* ProcessStep templates: not rerunnable; rerunnable with max_retries and a
\* workitem; rerunnable with an empty rerun_config.
StepTemplates ==
    {[is_rerunnable |-> FALSE, rerun_config |-> EmptyConfig],
     [is_rerunnable |-> TRUE, rerun_config |-> WorkitemConfig],
     [is_rerunnable |-> TRUE, rerun_config |-> EmptyConfig]}

\* dict truthiness: an empty rerun_config is falsy.
Truthy(rerun_config) == rerun_config # EmptyConfig

\* The template's rerun settings inherited whether or not it is rerunnable.
_create_step_run_from_template_Alike(step) ==
    NewStepRun(step.is_rerunnable, step.rerun_config,
               IF step.rerun_config.max_retries = None THEN DefaultMaxReruns
               ELSE step.rerun_config.max_retries[1])

_create_step_run_from_template(step) ==
    LET rerun_config == IF step.is_rerunnable /\ Truthy(step.rerun_config)
                        THEN step.rerun_config ELSE EmptyConfig
        max_reruns == IF ~step.is_rerunnable THEN 0
                      ELSE IF ~Truthy(step.rerun_config) THEN DefaultMaxReruns
                      ELSE IF step.rerun_config.max_retries = None
                           THEN DefaultMaxReruns
                           ELSE step.rerun_config.max_retries[1]
    IN NewStepRun(step.is_rerunnable, rerun_config, max_reruns)

(* --------------------------- request inputs ---------------------------- *)

\* A field of ProcessStepRunUpdate is <<>> when the request leaves it unset
\* (model_dump(exclude_unset=True) drops it) and <<v>> when it is set to v.
Unset == <<>>

\* The update requests of the system specification set the status and leave
\* started_at, finished_at and failure unset.
UpdatePayloads ==
    {[status |-> s, started_at |-> Unset, finished_at |-> Unset,
      failure |-> Unset] : s \in StepRunStatus}

\* Messages the adapter returns with a result.
AdapterMessages == {"adapter message"}

\* AutomationServerAdapter.get_adapter_name()
AdapterName == "automation_server"

(* ------------------------------ responses ------------------------------ *)

\* What a handler returns: error is "none" or the exception class raised,
\* detail the denial, rerun_result the dict of RerunService.trigger_rerun.
Resp(op, id, error, detail, rerun_result) ==
    [op |-> op, id |-> id, error |-> error, detail |-> detail,
     rerun_result |-> rerun_result]

DenyNotRerunnable == "cannot be rerun (can_rerun=False)"

DenyMaxReruns == "Maximum reruns exceeded"

DenyNotFailed == "Step must be in FAILED status to be rerun"

(* ------------------------ StepRunService (service) --------------------- *)

\* setattr(step_run, key, value) for every key the request sets.
ApplyUpdate(sr, update_data) ==
    [sr EXCEPT
       !.status = update_data.status,
       !.started_at = IF update_data.started_at = Unset THEN @
                      ELSE update_data.started_at[1],
       !.finished_at = IF update_data.finished_at = Unset THEN @
                       ELSE update_data.finished_at[1],
       !.failure = IF update_data.failure = Unset THEN @
                   ELSE update_data.failure[1]]

\* The status check moved to the front.
_validate_rerun_conditions_StatusFirst(sr) ==
    IF sr.status # "failed" THEN DenyNotFailed
    ELSE IF ~sr.can_rerun THEN DenyNotRerunnable
    ELSE IF sr.rerun_count >= sr.max_reruns THEN DenyMaxReruns
    ELSE "ok"

\* The limit check off by one.
_validate_rerun_conditions_OffByOne(sr) ==
    IF ~sr.can_rerun THEN DenyNotRerunnable
    ELSE IF sr.rerun_count > sr.max_reruns THEN DenyMaxReruns
    ELSE IF sr.status # "failed" THEN DenyNotFailed
    ELSE "ok"

\* The three checks in order; "ok" when all pass.
_validate_rerun_conditions(sr) ==
    IF ~sr.can_rerun THEN DenyNotRerunnable
    ELSE IF sr.rerun_count >= sr.max_reruns THEN DenyMaxReruns
    ELSE IF sr.status # "failed" THEN DenyNotFailed
    ELSE "ok"

\* The reset also restoring a soft-deleted step-run.
ResetForRerun_Undelete(sr) ==
    [sr EXCEPT !.rerun_count = @ + 1, !.status = "pending",
               !.started_at = None, !.finished_at = None, !.failure = None,
               !.deleted_at = None]

\* Reset step run for rerun.
ResetForRerun(sr) ==
    [sr EXCEPT !.rerun_count = @ + 1, !.status = "pending",
               !.started_at = None, !.finished_at = None, !.failure = None]


\* StepRunService.update_step_run up to its first commit: the step-run row
\* is stored; the parent run is re-derived by the second commit.
StepRunService_update_step_run ==
    /\ pc = "idle"
    /\ \E i \in DOMAIN step_runs, update_data \in UpdatePayloads :
        /\ step_runs' = [step_runs EXCEPT ![i] = ApplyUpdate(@, update_data)]
        /\ response' = Resp("service_update_step_run", i, "none", "none", None)
    /\ pc' = "update_parent"
    /\ UNCHANGED <<run, now, runs, process>>

\* StepRunService.rerun_step up to its first commit, or its denial.
StepRunService_rerun_step ==
    /\ pc = "idle"
    /\ \E i \in DOMAIN step_runs :
        LET verdict == _validate_rerun_conditions(step_runs[i])
        IN IF verdict # "ok"
           THEN /\ response' = Resp("service_rerun_step", i, "StepRunError",
                                    verdict, None)
                /\ UNCHANGED <<step_runs, pc>>
           ELSE /\ step_runs' = [step_runs EXCEPT ![i] = ResetForRerun(@)]
                /\ response' = Resp("service_rerun_step", i, "none", "none", None)
                /\ pc' = "update_parent"
    /\ UNCHANGED <<run, now, runs, process>>

\* _update_parent_run_status: run.update_status() at the time the handler
\* reads the clock, and the second commit.
_update_parent_run_status ==
    /\ pc = "update_parent"
    /\ \E t \in Times :
        /\ t >= now
        /\ now' = t
        /\ run' = update_status(run, step_runs, t)
    /\ pc' = "idle"
    /\ UNCHANGED <<step_runs, response, runs, process>>

(* ------------------- api/v1/endpoints/step_runs.py --------------------- *)

finished_statuses == {"success", "failed"}

\* PATCH /step-runs/{id}: one commit; the handler does not touch the run.
step_runs_update_step_run ==
    /\ pc = "idle"
    /\ \E i \in DOMAIN step_runs, update_in \in UpdatePayloads :
        LET sr1 == ApplyUpdate(step_runs[i], update_in)
            sr2 == IF update_in.finished_at = Unset
                      /\ update_in.status \in finished_statuses
                   THEN [sr1 EXCEPT !.finished_at = None] ELSE sr1
            sr3 == IF update_in.started_at = Unset /\ update_in.status = "running"
                   THEN [sr2 EXCEPT !.started_at = None] ELSE sr2
        IN /\ step_runs' = [step_runs EXCEPT ![i] = sr3]
           /\ response' = Resp("update_step_run", i, "none", "none", None)
    /\ UNCHANGED <<run, now, pc, runs, process>>

\* RerunService.trigger_rerun: "ValueError" when it raises before reaching
\* the adapter, else the set of dicts it can return.
trigger_rerun(sr) ==
    IF sr.deleted_at # None \/ sr.rerun_config.workitem_id = None
    THEN {}
    ELSE {[result |-> k, message |-> m, adapter |-> AdapterName] :
            k \in RerunResult, m \in AdapterMessages}

\* The reset applied before the adapter's answer is recorded.
ApplyRerunResult_ResetFirst(sr, rerun_result) ==
    IF rerun_result.result = "success"
    THEN ResetForRerun(sr)
    ELSE [ResetForRerun(sr) EXCEPT !.failure =
            Some([error |-> "Rerun failed", message |-> rerun_result.message,
                  adapter |-> rerun_result.adapter,
                  result_type |-> rerun_result.result])]

\* The step-run after the adapter answered.
ApplyRerunResult(sr, rerun_result) ==
    IF rerun_result.result = "success"
    THEN ResetForRerun(sr)
    ELSE [sr EXCEPT !.failure =
            Some([error |-> "Rerun failed", message |-> rerun_result.message,
                  adapter |-> rerun_result.adapter,
                  result_type |-> rerun_result.result])]

\* POST /step-runs/{id}/rerun: the checks, the external trigger, one commit.
step_runs_rerun_step ==
    /\ pc = "idle"
    /\ \E i \in DOMAIN step_runs :
        LET sr == step_runs[i]
            verdict == _validate_rerun_conditions(sr)
        IN IF verdict # "ok"
           THEN /\ response' = Resp("rerun_step", i, "HTTPException", verdict, None)
                /\ UNCHANGED step_runs
           ELSE IF trigger_rerun(sr) = {}
           THEN /\ response' = Resp("rerun_step", i, "HTTPException",
                                    "ValueError", None)
                /\ UNCHANGED step_runs
           ELSE \E rerun_result \in trigger_rerun(sr) :
                /\ step_runs' = [step_runs EXCEPT
                                   ![i] = ApplyRerunResult(@, rerun_result)]
                /\ response' = Resp("rerun_step", i, "none", "none",
                                    Some(rerun_result))
    /\ UNCHANGED <<run, now, pc, runs, process>>

(* ---------------------------- specification ---------------------------- *)

\* The state after create_run_with_steps: a pending run with one pending
\* step-run per template step of its process.
Init ==
    /\ run = NewRun
    /\ step_runs \in [1..NumSteps ->
                        {_create_step_run_from_template(st) : st \in StepTemplates}]
    /\ now = 1
    /\ pc = "idle"
    /\ response = NoResponse
    /\ runs = <<>>
    /\ process = NewProcess

Next ==
    \/ StepRunService_update_step_run
    \/ StepRunService_rerun_step
    \/ _update_parent_run_status
    \/ step_runs_update_step_run
    \/ step_runs_rerun_step

Spec == Init /\ [][Next]_vars

(* ============ claims: update_status and the run invariant ============== *)

Called == response.op = "update_status"

\* C1: whenever update_status is called on a run whose prior status is not
\* cancelled and whose step-runs contain a failed one, the run status is
\* failed afterwards, whatever the other step-run statuses are.
C1_FailedWins ==
    (/\ Called
     /\ response.prev.status # "cancelled"
     /\ InSeq("failed", StepStatuses(step_runs)))
    => run.status = "failed"

C1_Witness ==
    /\ Called
    /\ response.prev.status = "running"
    /\ InSeq("failed", StepStatuses(step_runs))
    /\ InSeq("running", StepStatuses(step_runs))
    /\ run.status = "failed"

\* C2: whenever update_status is called on a run whose status is cancelled,
\* the status is cancelled afterwards, for every step-run collection,
\* the empty one included.
C2_CancelSticky ==
    (Called /\ response.prev.status = "cancelled") => run.status = "cancelled"

\* C3: after update_status on a run whose prior status is not cancelled, the
\* run is completed exactly when every step-run is success or optional and
\* at least one is success.
C3_CompletedIff ==
    (Called /\ response.prev.status # "cancelled")
    => (run.status = "completed"
        <=> /\ \A i \in DOMAIN step_runs :
                  step_runs[i].status \in {"success", "optional"}
            /\ \E i \in DOMAIN step_runs : step_runs[i].status = "success")

C3_Witness ==
    /\ Called
    /\ response.prev.status = "pending"
    /\ Len(step_runs) > 0
    /\ \A i \in DOMAIN step_runs : step_runs[i].status = "optional"
    /\ run.status = "pending"

\* The status the derivation rules give a step-run collection.
Derivation(steps) ==
    IF Len(steps) = 0 THEN "pending" ELSE DerivedStatus(StepStatuses(steps))

\* C4: in every committed state the run's status is cancelled or equals the
\* derivation over the current statuses of its step-runs; no committed state
\* holds a stored step-run update or rerun whose parent run is not re-derived.
C4_RunMatchesSteps ==
    run.status = "cancelled" \/ run.status = Derivation(step_runs)

\* C5: a second call of update_status in a row, the step-runs unchanged,
\* leaves the run status, started_at and finished_at as the first call left
\* them, for every prior run state and however much time has passed.
C5_Idempotent ==
    (Called /\ response.calls = 2)
    => /\ run.status = response.prev.status
       /\ run.started_at = response.prev.started_at
       /\ run.finished_at = response.prev.finished_at

C5_Witness ==
    /\ Called
    /\ response.calls = 2
    /\ now > 1
    /\ run.status \in terminal_statuses
    /\ run.finished_at = Some(1)

(* ==================== claims: step-run operations ====================== *)

\* The response is that of a rerun request (service or endpoint).
IsRerunResponse == response.op \in {"rerun_step", "service_rerun_step"}

\* C6: a derivation sets the run's finished_at only when it moves the run
\* from pending/running into completed/failed/cancelled with finished_at
\* unset (to the current time), clears it only when it moves the run from a
\* terminal status to pending/running, and otherwise leaves it as it was,
\* terminal-to-terminal changes included.
C6_FinishedAtBookkeeping ==
    [][/\ (run.finished_at = None /\ run'.finished_at # None)
            => /\ run.status \in non_terminal_statuses
               /\ run'.status \in terminal_statuses
               /\ run'.finished_at = Some(now')
       /\ (run.finished_at # None /\ run'.finished_at = None)
            => /\ run.status \in terminal_statuses
               /\ run'.status \in non_terminal_statuses
       /\ (run.finished_at # None /\ run'.finished_at # None)
            => run'.finished_at = run.finished_at]_vars

\* A derivation at time 2 that took the run from failed to completed and
\* kept the finished_at of time 1.
C6_Witness ==
    /\ pc = "idle"
    /\ response.op = "service_update_step_run"
    /\ now = 2
    /\ run.status = "completed"
    /\ run.finished_at = Some(1)

\* The transition completes a successful rerun: the endpoint's commit after
\* a success answer, or the service's second commit.
RerunCompletes ==
    \/ /\ pc = "idle"
       /\ pc' = "idle"
       /\ response'.op = "rerun_step"
       /\ response'.rerun_result # None
       /\ response'.rerun_result[1].result = "success"
    \/ /\ pc = "update_parent"
       /\ pc' = "idle"
       /\ response.op = "service_rerun_step"

\* C7: when a successful rerun of the only failed step-run of a failed run
\* completes and no step-run is cancelled, that step-run is pending and the
\* run is running with finished_at cleared.
C7_RerunReopensRun ==
    [][(/\ RerunCompletes
        /\ run.status = "failed"
        /\ \A j \in DOMAIN step_runs' :
              step_runs'[j].status \notin {"failed", "cancelled"})
       => /\ step_runs'[response'.id].status = "pending"
          /\ run'.status = "running"
          /\ run'.finished_at = None]_vars

\* C8: a rerun request is denied by the first failing check in the order
\* can_rerun, rerun_count < max_reruns, status = failed; the three denials
\* are distinct and are raised as StepRunError or HTTP 400, and a request
\* that is not denied by a check passed all three.
C8_DenialOrder ==
    IsRerunResponse =>
        LET sr == step_runs[response.id]
            by_check == response.detail \in
                            {DenyNotRerunnable, DenyMaxReruns, DenyNotFailed}
        IN /\ by_check =>
                /\ response.error \in {"StepRunError", "HTTPException"}
                /\ response.detail = DenyNotRerunnable <=> ~sr.can_rerun
                /\ response.detail = DenyMaxReruns
                     <=> (sr.can_rerun /\ sr.rerun_count >= sr.max_reruns)
                /\ response.detail = DenyNotFailed
                     <=> /\ sr.can_rerun
                         /\ sr.rerun_count < sr.max_reruns
                         /\ sr.status # "failed"
           /\ ~by_check =>
                /\ sr.can_rerun
                /\ sr.rerun_count <= sr.max_reruns
                /\ response.detail = "ValueError" => sr.status = "failed"
           /\ Cardinality({DenyNotRerunnable, DenyMaxReruns, DenyNotFailed}) = 3

\* A step-run failing all three checks is denied as not rerunnable.
C8_Witness ==
    /\ IsRerunResponse
    /\ response.detail = DenyNotRerunnable
    /\ step_runs[response.id].status = "success"
    /\ step_runs[response.id].rerun_count >= step_runs[response.id].max_reruns

RerunAnswered ==
    /\ pc = "idle"
    /\ response'.op = "rerun_step"
    /\ response'.rerun_result # None

\* The structured error the endpoint stores for an adapter answer.
RerunFailure(rerun_result) ==
    Some([error |-> "Rerun failed", message |-> rerun_result.message,
          adapter |-> rerun_result.adapter, result_type |-> rerun_result.result])

\* C10 as claimed: after a rerun request that passed the checks, the step-run
\* is pending with rerun_count incremented by one, its failure holding the
\* adapter's result kind and message on a non-success answer and null on a
\* success answer.
C10_PendingAfterAnyAnswer ==
    [][RerunAnswered =>
        LET i == response'.id
            rerun_result == response'.rerun_result[1]
        IN /\ step_runs'[i].status = "pending"
           /\ step_runs'[i].rerun_count = step_runs[i].rerun_count + 1
           /\ step_runs'[i].failure =
                IF rerun_result.result = "success" THEN None
                ELSE RerunFailure(rerun_result)]_vars

\* C10 amended: on a non-success answer the step-run keeps its failed status
\* and its rerun_count and only its failure changes, to the structured error
\* with the adapter's result kind, message and name; on a success answer it
\* is pending with rerun_count incremented by one and failure null.
C10_AnswerRecorded ==
    [][RerunAnswered =>
        LET i == response'.id
            rerun_result == response'.rerun_result[1]
        IN IF rerun_result.result = "success"
           THEN /\ step_runs'[i].status = "pending"
                /\ step_runs'[i].rerun_count = step_runs[i].rerun_count + 1
                /\ step_runs'[i].failure = None
           ELSE /\ step_runs[i].status = "failed"
                /\ step_runs'[i] =
                     [step_runs[i] EXCEPT !.failure = RerunFailure(rerun_result)]]_vars

C10_Witness ==
    /\ response.op = "rerun_step"
    /\ response.rerun_result # None
    /\ response.rerun_result[1].result = "source_error"
    /\ step_runs[response.id].status = "failed"
    /\ step_runs[response.id].rerun_count = 0
    /\ step_runs[response.id].failure = RerunFailure(response.rerun_result[1])

(* ============== rerun of step-runs that carry a history ================ *)

\* The failure dict a client stored with a failed step-run.
ClientFailure == [error |-> "client error", message |-> "step failed",
                  adapter |-> "none", result_type |-> "none"]

\* ProcessStepRunBase.step_index, set from the template step's index.
WithStepIndex(sr, i) == [step_index |-> i] @@ sr

\* Step-run rows of a run that has been worked on: created from a rerunnable
\* template, started, then failed or succeeded through the update handlers,
\* possibly rerun before and possibly soft-deleted with its run.
WorkedStepRuns ==
    {[_create_step_run_from_template(st) EXCEPT
        !.status = s, !.started_at = Some(1), !.finished_at = fin,
        !.failure = fail, !.rerun_count = c, !.deleted_at = del] :
       st \in {t \in StepTemplates : t.is_rerunnable},
       s \in {"failed", "success"},
       fin \in {None, Some(1)},
       fail \in {None, Some(ClientFailure)},
       c \in 0..1,
       del \in {None, Some(1)}}

\* The run's status as the last service update left it.
InitRerun ==
    /\ \E rows \in [1..NumSteps -> WorkedStepRuns] :
         step_runs = [i \in 1..NumSteps |-> WithStepIndex(rows[i], i - 1)]
    /\ run = update_status([NewRun EXCEPT !.started_at = Some(1)], step_runs, 1)
    /\ now = 1
    /\ pc = "idle"
    /\ response = NoResponse
    /\ runs = <<>>
    /\ process = NewProcess

NextRerun ==
    \/ StepRunService_rerun_step
    \/ _update_parent_run_status
    \/ step_runs_rerun_step

SpecRerun == InitRerun /\ [][NextRerun]_vars

(* ==================== claims: the frame of a rerun ===================== *)

\* The columns a rerun writes.
RerunWrites == {"rerun_count", "status", "started_at", "finished_at", "failure"}

\* The step just taken is a successful rerun: the service's first commit, or
\* the endpoint's commit after the adapter answered success.
SuccessfulRerunStep ==
    /\ pc = "idle"
    /\ response'.error = "none"
    /\ \/ response'.op = "service_rerun_step" /\ pc' = "update_parent"
       \/ /\ response'.op = "rerun_step"
          /\ response'.rerun_result # None
          /\ response'.rerun_result[1].result = "success"

\* C11: a successful rerun of a step-run increments its rerun_count by exactly
\* one, sets its status to pending and its started_at, finished_at and failure
\* to null; every other column of the step-run (can_rerun, max_reruns,
\* rerun_config, step_index, deleted_at) and every other step-run of the run
\* is left as it was, also by the parent-run update that ends the handler.
C11_RerunFrame ==
    [][/\ SuccessfulRerunStep =>
            LET i == response'.id
                before == step_runs[i]
                after == step_runs'[i]
            IN /\ DOMAIN step_runs' = DOMAIN step_runs
               /\ after.rerun_count = before.rerun_count + 1
               /\ after.status = "pending"
               /\ after.started_at = None
               /\ after.finished_at = None
               /\ after.failure = None
               /\ DOMAIN after = DOMAIN before
               /\ \A f \in DOMAIN before \ RerunWrites : after[f] = before[f]
               /\ \A j \in DOMAIN step_runs \ {i} : step_runs'[j] = step_runs[j]
       /\ pc = "update_parent" => step_runs' = step_runs]_vars

\* A soft-deleted step-run with a history has been rerun next to a failed
\* step-run that keeps its timestamps and failure.
C11_Witness ==
    /\ response.op \in {"service_rerun_step", "rerun_step"}
    /\ response.error = "none"
    /\ response.rerun_result = None \/ response.rerun_result[1].result = "success"
    /\ step_runs[response.id].status = "pending"
    /\ step_runs[response.id].started_at = None
    /\ step_runs[response.id].deleted_at # None
    /\ step_runs[response.id].rerun_count >= 1
    /\ \E j \in DOMAIN step_runs \ {response.id} :
         /\ step_runs[j].status = "failed"
         /\ step_runs[j].finished_at # None
         /\ step_runs[j].failure # None

(* ================= data retention and neutralization =================== *)

\* A value of a metadata map as json.loads returns it: its Python type and
\* its JSON text.
JsonValue(kind, text) == [kind |-> kind, text |-> text]

\* isinstance(value, types); bool is a subclass of int in Python.
IsInstance(value, types) ==
    \/ value.kind \in types
    \/ value.kind = "bool" /\ "int" \in types

\* safe_keys of _neutralize_metadata.
safe_keys == {"category", "type", "department", "status_code"}

\* The keys the loop of _neutralize_metadata assigns: a key that is neither
\* safe nor matched by an isinstance branch gets no entry.
NeutralizedKeys(meta) ==
    {key \in DOMAIN meta :
        \/ key \in safe_keys
        \/ IsInstance(meta[key], {"str"})
        \/ IsInstance(meta[key], {"int", "float"})
        \/ IsInstance(meta[key], {"bool"})}

\* DataRetentionService._neutralize_metadata: the branches in source order.
_neutralize_metadata(meta) ==
    [key \in NeutralizedKeys(meta) |->
        IF key \in safe_keys THEN meta[key]
        ELSE IF IsInstance(meta[key], {"str"}) THEN JsonValue("str", "[NEUTRALIZED]")
        ELSE IF IsInstance(meta[key], {"int", "float"}) THEN JsonValue("int", "0")
        ELSE JsonValue("bool", "false")]

\* The empty metadata map {}.
EmptyMeta == <<>>

\* f"NEUTRALIZED_{run.id}"
NeutralizedEntityId(id) == "NEUTRALIZED_" \o ToString(id)

\* A second call scrubbing the metadata map to {}.
neutralize_run_data_ScrubAgain(r) ==
    IF r.is_neutralized THEN [r EXCEPT !.meta = EmptyMeta]
    ELSE [r EXCEPT !.entity_id = NeutralizedEntityId(r.id),
                   !.entity_name = None,
                   !.meta = IF @ # EmptyMeta THEN _neutralize_metadata(@) ELSE @,
                   !.is_neutralized = TRUE]

\* Neutralization that leaves the entity name in place.
neutralize_run_data_KeepName(r) ==
    IF r.is_neutralized THEN r
    ELSE [r EXCEPT !.entity_id = NeutralizedEntityId(r.id),
                   !.meta = IF @ # EmptyMeta THEN _neutralize_metadata(@) ELSE @,
                   !.is_neutralized = TRUE]

\* DataRetentionService.neutralize_run_data: the row it commits.
neutralize_run_data(r) ==
    IF r.is_neutralized THEN r
    ELSE [r EXCEPT !.entity_id = NeutralizedEntityId(r.id),
                   !.entity_name = None,
                   !.meta = IF @ # EmptyMeta THEN _neutralize_metadata(@) ELSE @,
                   !.is_neutralized = TRUE]

\* Truthiness of an optional integer: None and 0 are falsy.
TruthyInt(x) == x # None /\ x[1] # 0

\* DataRetentionService.calculate_scheduled_deletion, times counted in days.
calculate_scheduled_deletion(proc, run_created_at) ==
    IF ~TruthyInt(proc.retention_months) THEN None
    ELSE Some(run_created_at + 30 * proc.retention_months[1])

\* The ProcessRun row create_run_with_steps commits: ProcessRun
\* .model_validate(run_data) with the column defaults, created_at read from
\* the clock, and the scheduled deletion of the process's policy.
create_run_with_steps(run_data, proc, id, t) ==
    [id |-> id,
     entity_id |-> run_data.entity_id,
     entity_name |-> run_data.entity_name,
     meta |-> run_data.meta,
     status |-> "pending", started_at |-> None, finished_at |-> None,
     is_neutralized |-> FALSE,
     deleted_at |-> None,
     created_at |-> t,
     scheduled_deletion_at |-> IF TruthyInt(proc.retention_months)
                               THEN Some(t + 30 * proc.retention_months[1])
                               ELSE None]

\* The process_run table: run is the row with id 1, runs the rows after it.
Table == <<run>> \o runs

\* Store table T.
SetTable(T) ==
    /\ run' = T[1]
    /\ runs' = SubSeq(T, 2, Len(T))

\* POST /runs/{run_id}/neutralize on an existing run: neutralize_run_data
\* and the NeutralizationResult returned.
runs_neutralize_run ==
    /\ pc = "idle"
    /\ \E k \in DOMAIN Table :
        LET was_neutralized == Table[k].is_neutralized
        IN /\ SetTable([Table EXCEPT ![k] = neutralize_run_data(@)])
           /\ response' = [op |-> "neutralize_run", id |-> k, error |-> "none",
                           was_already_neutralized |-> was_neutralized,
                           success |-> TRUE,
                           message |-> IF was_neutralized
                                       THEN "Run was already neutralized"
                                       ELSE "Run successfully neutralized"]
    /\ UNCHANGED <<step_runs, now, pc, process>>

\* A cascade that reaches the first step-run only.
CascadeDeletedAt_FirstOnly(steps, value) ==
    [i \in DOMAIN steps |->
       IF i = 1 THEN [steps[i] EXCEPT !.deleted_at = value] ELSE steps[i]]

\* The cascade of soft_delete_run / restore_run over run.steps.
CascadeDeletedAt(steps, value) ==
    [i \in DOMAIN steps |-> [steps[i] EXCEPT !.deleted_at = value]]

\* DataRetentionService.soft_delete_run: the run row it commits.
soft_delete_run(r, t) == [r EXCEPT !.deleted_at = Some(t)]

\* A restore that also clears the neutralization mark.
restore_run_Unneutralize(r) ==
    [r EXCEPT !.deleted_at = None, !.is_neutralized = FALSE]

\* DataRetentionService.restore_run: the run row it commits.
restore_run(r) == [r EXCEPT !.deleted_at = None]

\* DELETE /runs/{run_id} on an existing run.  Step-runs are tracked for the
\* run with id 1 only.
runs_delete_run ==
    /\ pc = "idle"
    /\ \E k \in DOMAIN Table, t \in Times :
        /\ t >= now
        /\ now' = t
        /\ SetTable([Table EXCEPT ![k] = soft_delete_run(@, t)])
        /\ step_runs' = IF k = 1 THEN CascadeDeletedAt(step_runs, Some(t))
                        ELSE step_runs
        /\ response' = [op |-> "delete_run", id |-> k, error |-> "none"]
    /\ UNCHANGED <<pc, process>>

\* POST /runs/{run_id}/restore on an existing run.
runs_restore_run ==
    /\ pc = "idle"
    /\ \E k \in DOMAIN Table :
        /\ SetTable([Table EXCEPT ![k] = restore_run(@)])
        /\ step_runs' = IF k = 1 THEN CascadeDeletedAt(step_runs, None)
                        ELSE step_runs
        /\ response' = [op |-> "restore_run", id |-> k, error |-> "none"]
    /\ UNCHANGED <<now, pc, process>>

\* The query without its deleted_at filter.
DueRuns_DeletedToo(T, t) ==
    {k \in DOMAIN T :
        /\ T[k].scheduled_deletion_at # None
        /\ T[k].scheduled_deletion_at[1] <= t
        /\ ~T[k].is_neutralized}

\* The WHERE clause of get_runs_due_for_neutralization at time t; a NULL
\* scheduled_deletion_at compares false.
DueRuns(T, t) ==
    {k \in DOMAIN T :
        /\ T[k].scheduled_deletion_at # None
        /\ T[k].scheduled_deletion_at[1] <= t
        /\ ~T[k].is_neutralized
        /\ T[k].deleted_at = None}

\* The sequences of n different elements of S.
Orderings(S, n) ==
    {q \in [1..n -> S] : \A i, j \in 1..n : i # j => q[i] # q[j]}

Min(a, b) == IF a <= b THEN a ELSE b

\* The query without its is_neutralized filter: rows neutralized before are
\* returned again.
get_runs_due_for_neutralization_NeutralizedToo(T, t, limit) ==
    LET found == {k \in DOMAIN T :
                    /\ T[k].scheduled_deletion_at # None
                    /\ T[k].scheduled_deletion_at[1] <= t
                    /\ T[k].deleted_at = None}
    IN Orderings(found, Min(limit, Cardinality(found)))

\* get_runs_due_for_neutralization: the query has a LIMIT and no ORDER BY,
\* so it may return any limit of the due rows in any order.
get_runs_due_for_neutralization(T, t, limit) ==
    Orderings(DueRuns(T, t), Min(limit, Cardinality(DueRuns(T, t))))

\* str(e) of the exception a failing commit raises.
CommitError == "commit failed"

\* The loop giving up at the first exception.
RECURSIVE SweepLoop_AbortOnError(_, _, _, _, _)
SweepLoop_AbortOnError(T, due_runs, i, raising, stats) ==
    IF i > Len(due_runs) THEN [table |-> T, stats |-> stats]
    ELSE LET k == due_runs[i]
         IN IF k \in raising
            THEN [table |-> T,
                  stats |-> [stats EXCEPT
                               !.failed = @ + 1,
                               !.errors = Append(@, [run_id |-> T[k].id,
                                                     error |-> CommitError])]]
            ELSE SweepLoop_AbortOnError([T EXCEPT ![k] = neutralize_run_data(@)],
                                        due_runs, i + 1, raising,
                                        [stats EXCEPT !.neutralized = @ + 1])

\* The loop with raising runs stored as neutralized all the same.
RECURSIVE SweepLoop_StoresFailed(_, _, _, _, _)
SweepLoop_StoresFailed(T, due_runs, i, raising, stats) ==
    IF i > Len(due_runs) THEN [table |-> T, stats |-> stats]
    ELSE LET k == due_runs[i]
             T1 == [T EXCEPT ![k] = neutralize_run_data(@)]
         IN IF k \in raising
            THEN SweepLoop_StoresFailed(T1, due_runs, i + 1, raising,
                           [stats EXCEPT
                              !.failed = @ + 1,
                              !.errors = Append(@, [run_id |-> T[k].id,
                                                    error |-> CommitError])])
            ELSE SweepLoop_StoresFailed(T1, due_runs, i + 1, raising,
                           [stats EXCEPT !.neutralized = @ + 1])

\* The for loop of neutralize_due_runs from position i on; raising are the
\* rows whose neutralize_run_data raises, which leaves them uncommitted.
RECURSIVE SweepLoop(_, _, _, _, _)
SweepLoop(T, due_runs, i, raising, stats) ==
    IF i > Len(due_runs) THEN [table |-> T, stats |-> stats]
    ELSE LET k == due_runs[i]
         IN IF k \in raising
            THEN SweepLoop(T, due_runs, i + 1, raising,
                           [stats EXCEPT
                              !.failed = @ + 1,
                              !.errors = Append(@, [run_id |-> T[k].id,
                                                    error |-> CommitError])])
            ELSE SweepLoop([T EXCEPT ![k] = neutralize_run_data(@)],
                           due_runs, i + 1, raising,
                           [stats EXCEPT !.neutralized = @ + 1])

\* The sweep with the loop that gives up.
neutralize_due_runs_AbortOnError(T, due_runs, raising) ==
    SweepLoop_AbortOnError(T, due_runs, 1, raising,
                           [total_found |-> Len(due_runs), neutralized |-> 0,
                            failed |-> 0, errors |-> <<>>])

\* DataRetentionService.neutralize_due_runs on the rows the query returned.
neutralize_due_runs(T, due_runs, raising) ==
    SweepLoop(T, due_runs, 1, raising,
              [total_found |-> Len(due_runs), neutralized |-> 0, failed |-> 0,
               errors |-> <<>>])

\* Largest batch_size requested (the endpoint accepts 1..1000).
MaxBatch == 2

\* POST /admin/cleanup/neutralize: the sweep and the CleanupResult returned;
\* found is the list the query returned, at the time the query read.
admin_trigger_cleanup ==
    /\ pc = "idle"
    /\ \E batch_size \in 1..MaxBatch, t \in Times :
        /\ t >= now
        /\ now' = t
        /\ \E due_runs \in get_runs_due_for_neutralization(Table, t, batch_size) :
           \E raising \in SUBSET {due_runs[i] : i \in DOMAIN due_runs} :
             LET out == neutralize_due_runs(Table, due_runs, raising)
             IN /\ SetTable(out.table)
                /\ response' = [op |-> "trigger_cleanup", error |-> "none",
                                batch_size |-> batch_size, found |-> due_runs,
                                total_found |-> out.stats.total_found,
                                neutralized |-> out.stats.neutralized,
                                failed |-> out.stats.failed,
                                errors |-> out.stats.errors]
    /\ UNCHANGED <<step_runs, pc, process>>

\* The sweep interrupted by a crash of the server after reached of the found
\* runs went through the loop: the commits made so far stay, nothing is
\* returned.
admin_trigger_cleanup_crash ==
    /\ pc = "idle"
    /\ \E batch_size \in 1..MaxBatch, t \in Times :
        /\ t >= now
        /\ now' = t
        /\ \E due_runs \in get_runs_due_for_neutralization(Table, t, batch_size) :
           \E reached \in 0..(Len(due_runs) - 1) :
           \E raising \in SUBSET {due_runs[i] : i \in 1..reached} :
             LET out == neutralize_due_runs(Table, SubSeq(due_runs, 1, reached),
                                            raising)
             IN /\ SetTable(out.table)
                /\ response' = [op |-> "trigger_cleanup", error |-> "crash",
                                batch_size |-> batch_size, found |-> due_runs,
                                reached |-> reached]
    /\ UNCHANGED <<step_runs, pc, process>>

\* ProcessService.update_retention_period: the process row it commits.
update_retention_period(proc, retention_months) ==
    [proc EXCEPT !.retention_months = retention_months]

\* A policy change that reschedules the runs that exist.
processes_update_retention_Retroactive(retention_months) ==
    /\ pc = "idle"
    /\ process' = update_retention_period(process, retention_months)
    /\ SetTable([k \in DOMAIN Table |->
                   [Table[k] EXCEPT !.scheduled_deletion_at =
                      calculate_scheduled_deletion(process', Table[k].created_at)]])
    /\ response' = [op |-> "update_retention", error |-> "none"]
    /\ UNCHANGED <<step_runs, now, pc>>

\* PUT /processes/{process_id}/retention.
processes_update_retention(retention_months) ==
    /\ pc = "idle"
    /\ process' = update_retention_period(process, retention_months)
    /\ response' = [op |-> "update_retention", error |-> "none"]
    /\ UNCHANGED <<run, runs, step_runs, now, pc>>

\* Rows of the process_run table in any state.
MaxRuns == 3

\* POST /runs: the new row gets the next id.  The step-runs created with it
\* are not tracked.
runs_create_process_run(run_data) ==
    /\ pc = "idle"
    /\ Len(Table) < MaxRuns
    /\ \E t \in Times :
        /\ t >= now
        /\ now' = t
        /\ runs' = Append(runs, create_run_with_steps(run_data, process,
                                                      Len(Table) + 1, t))
    /\ response' = [op |-> "create_process_run", id |-> Len(Table) + 1,
                    error |-> "none"]
    /\ UNCHANGED <<run, step_runs, pc, process>>

(* ------------------- neutralization of one run's data ------------------ *)

\* Keys of the metadata maps drawn: one allow-listed, two not.
MetaKeys == {"category", "note", "flag"}

\* A string, an integer, a float, the booleans and null.
MetaValues ==
    {JsonValue("str", "alice"), JsonValue("int", "7"), JsonValue("float", "2.5"),
     JsonValue("bool", "true"), JsonValue("bool", "false"),
     JsonValue("null", "null")}

\* Every metadata map over a subset of MetaKeys.
MetaMaps == UNION {[K -> MetaValues] : K \in SUBSET MetaKeys}

EntityNames == {None, Some("Alice Andersen")}

\* ProcessRunCreate payloads.
RunInputs == [entity_id : {"E-100"}, entity_name : EntityNames, meta : MetaMaps]

\* One run, just created for a process without steps and without retention.
InitNeutralize ==
    /\ \E run_data \in RunInputs :
         run = create_run_with_steps(run_data, NewProcess, 1, 1)
    /\ step_runs = <<>>
    /\ now = 1
    /\ pc = "idle"
    /\ response = NoResponse
    /\ runs = <<>>
    /\ process = NewProcess

NextNeutralize == runs_neutralize_run

SpecNeutralize == InitNeutralize /\ [][NextNeutralize]_vars

(* --------------------- the retention lifecycle ------------------------- *)

\* retention_months values a client sets.
RetentionChoices == {None, Some(0), Some(1)}

\* The ProcessRunCreate payload of the lifecycle's runs.
LifecycleInput ==
    [entity_id |-> "E-100", entity_name |-> Some("Alice Andersen"),
     meta |-> [category |-> JsonValue("str", "benefits"),
               note |-> JsonValue("str", "alice")]]

\* Creation days of the runs that exist at the start: with one month of
\* retention their scheduled deletion falls on day 1 or 2.
PastDays == {-29, -28}

\* Run rows created before the start, under no retention or one month.
PastRuns(id) ==
    {create_run_with_steps(LifecycleInput, [retention_months |-> m], id, t) :
       m \in {None, Some(1)}, t \in PastDays}

\* The step-run of a run of a process with one rerunnable step.
LifecycleStepRuns ==
    <<_create_step_run_from_template(
        [is_rerunnable |-> TRUE, rerun_config |-> WorkitemConfig])>>

\* Two runs created in the past, the first due on day 1, the second under
\* either policy; the process now retains for one month.
InitRetention ==
    /\ run = create_run_with_steps(LifecycleInput, [retention_months |-> Some(1)],
                                   1, -29)
    /\ runs \in {<<r>> : r \in PastRuns(2)}
    /\ step_runs = LifecycleStepRuns
    /\ now = 1
    /\ pc = "idle"
    /\ response = NoResponse
    /\ process = [retention_months |-> Some(1)]

\* The retention handlers over the table.
NextRetention ==
    \/ runs_neutralize_run
    \/ admin_trigger_cleanup
    \/ runs_delete_run
    \/ runs_restore_run
    \/ \E retention_months \in RetentionChoices :
         processes_update_retention(retention_months)
    \/ runs_create_process_run(LifecycleInput)

SpecRetention == InitRetention /\ [][NextRetention]_vars

\* One run created in the past with its step-run.
InitLifecycle ==
    /\ run \in PastRuns(1)
    /\ runs = <<>>
    /\ step_runs = LifecycleStepRuns
    /\ now = 1
    /\ pc = "idle"
    /\ response = NoResponse
    /\ process = [retention_months |-> Some(1)]

\* The handlers that write a run or its step-runs after creation.
NextLifecycle ==
    \/ runs_neutralize_run
    \/ admin_trigger_cleanup
    \/ runs_delete_run
    \/ runs_restore_run
    \/ StepRunService_update_step_run
    \/ StepRunService_rerun_step
    \/ _update_parent_run_status
    \/ step_runs_update_step_run
    \/ step_runs_rerun_step

SpecLifecycle == InitLifecycle /\ [][NextLifecycle]_vars

\* The sweep, completed or interrupted, among soft-deletes and restores.
NextSweep ==
    \/ admin_trigger_cleanup
    \/ admin_trigger_cleanup_crash
    \/ runs_delete_run
    \/ runs_restore_run

SpecSweep == InitRetention /\ [][NextSweep]_vars

(* ------------------ run creation under a policy ------------------------ *)

\* retention_months values of the policies drawn: none, and months below,
\* at and above zero.
RetentionInputs == {None} \cup {Some(m) : m \in {-1, 0, 1, 3, 6}}

\* The first run was created under the drawn policy.
InitCreate ==
    /\ process \in [retention_months : RetentionInputs]
    /\ run = create_run_with_steps(LifecycleInput, process, 1, 1)
    /\ runs = <<>>
    /\ step_runs = LifecycleStepRuns
    /\ now = 1
    /\ pc = "idle"
    /\ response = NoResponse

NextCreate ==
    \/ \E retention_months \in RetentionInputs :
         processes_update_retention(retention_months)
    \/ runs_create_process_run(LifecycleInput)

SpecCreate == InitCreate /\ [][NextCreate]_vars

(* ---------------- sweeps invoked again and again ----------------------- *)

\* Three runs created in the past, each under either policy: up to three are
\* due, more than a batch holds.
InitFairSweep ==
    /\ run \in PastRuns(1)
    /\ runs \in {<<r2, r3>> : r2 \in PastRuns(2), r3 \in PastRuns(3)}
    /\ step_runs = LifecycleStepRuns
    /\ now = 1
    /\ pc = "idle"
    /\ response = NoResponse
    /\ process = [retention_months |-> Some(1)]

\* A sweep in which no neutralization raises.
admin_trigger_cleanup_no_raise ==
    /\ admin_trigger_cleanup
    /\ response'.failed = 0

NextFairSweep ==
    \/ admin_trigger_cleanup_no_raise
    \/ runs_delete_run
    \/ runs_restore_run

\* Sweeps keep being requested: a sweep that would change something is
\* eventually made.
SpecFairSweep ==
    /\ InitFairSweep
    /\ [][NextFairSweep]_vars
    /\ WF_vars(admin_trigger_cleanup_no_raise)

(* ------------------- metadata updates after creation ------------------- *)

\* metadata_update arguments: the empty map and every map of one key.
MetaUpdates ==
    {EmptyMeta} \cup UNION {[{key} -> MetaValues] : key \in MetaKeys \cup {"extra"}}

\* dict.update on a copy: the update's value where it has the key.
DictUpdate(current, update) ==
    [key \in DOMAIN current \cup DOMAIN update |->
        IF key \in DOMAIN update THEN update[key] ELSE current[key]]

\* ProcessRunService.update_run_metadata on an existing run: only keys the
\* run's metadata already has may be given.
update_run_metadata ==
    /\ pc = "idle"
    /\ \E k \in DOMAIN Table, metadata_update \in MetaUpdates :
        LET current_meta == Table[k].meta
            unknown_keys == DOMAIN metadata_update \ DOMAIN current_meta
        IN IF \/ current_meta = EmptyMeta /\ metadata_update # EmptyMeta
              \/ unknown_keys # {}
           THEN /\ response' = [op |-> "update_run_metadata", id |-> k,
                                error |-> "ValueError"]
                /\ UNCHANGED <<run, runs>>
           ELSE /\ SetTable([Table EXCEPT ![k].meta =
                               DictUpdate(current_meta, metadata_update)])
                /\ response' = [op |-> "update_run_metadata", id |-> k,
                                error |-> "none"]
    /\ UNCHANGED <<step_runs, now, pc, process>>

NextMetadata ==
    \/ runs_neutralize_run
    \/ update_run_metadata

SpecMetadata == InitNeutralize /\ [][NextMetadata]_vars

(* ---------------- the step-run service on a new run -------------------- *)

\* Steps of the process in the runs of SpecService.
ServiceSteps == 3

\* A run as created, with one pending step-run per step, every step
\* rerunnable.
InitService ==
    /\ run = NewRun
    /\ step_runs = [i \in 1..ServiceSteps |-> LifecycleStepRuns[1]]
    /\ now = 1
    /\ pc = "idle"
    /\ response = NoResponse
    /\ runs = <<>>
    /\ process = NewProcess

\* Step-run updates and reruns, each followed by run.update_status().
NextService ==
    \/ StepRunService_update_step_run
    \/ StepRunService_rerun_step
    \/ _update_parent_run_status

SpecService == InitService /\ [][NextService]_vars

(* ------------------- soft delete and restore alone --------------------- *)

\* The step-runs of a run of a process with NumSteps steps, as created.
CreatedStepRuns ==
    [1..NumSteps -> {_create_step_run_from_template(step) : step \in StepTemplates}]

\* Two runs created in the past, the first with its step-runs.
InitSoftDelete ==
    /\ run \in PastRuns(1)
    /\ runs \in {<<r>> : r \in PastRuns(2)}
    /\ step_runs \in CreatedStepRuns
    /\ now = 1
    /\ pc = "idle"
    /\ response = NoResponse
    /\ process = NewProcess

NextSoftDelete ==
    \/ runs_delete_run
    \/ runs_restore_run

SpecSoftDelete == InitSoftDelete /\ [][NextSoftDelete]_vars

(* ------------- processes, their steps, and run creation ---------------- *)

\* ProcessStep templates, a non-rerunnable one that carries a rerun_config
\* included.
AllStepTemplates ==
    StepTemplates \cup {[is_rerunnable |-> FALSE, rerun_config |-> WorkitemConfig]}

\* A ProcessStep row.
StepRow(id, template) == [id |-> id, deleted_at |-> None] @@ template

\* Longest list of steps of a process.
MaxTemplateSteps == 2

\* Process rows with their steps in index order.
ProcessesWithSteps ==
    UNION {{[retention_months |-> None, deleted_at |-> None,
             steps |-> [i \in 1..n |-> StepRow(i, templates[i])]] :
              templates \in [1..n -> AllStepTemplates]} :
           n \in 0..MaxTemplateSteps}

\* The value of run while the process_run table is empty.
NoRun == [stored |-> FALSE]

\* A process with its steps; no run yet.
InitCreation ==
    /\ process \in ProcessesWithSteps
    /\ run = NoRun
    /\ runs = <<>>
    /\ step_runs = <<>>
    /\ now = 1
    /\ pc = "idle"
    /\ response = NoResponse

\* create_run_with_steps up to its first commit: the process is selected by
\* id alone, the run row is stored.
create_run_with_steps_commit_run(run_data) ==
    /\ pc = "idle"
    /\ run = NoRun
    /\ \E t \in Times :
        /\ t >= now
        /\ now' = t
        /\ run' = create_run_with_steps(run_data, process, 1, t)
    /\ pc' = "create_steps"
    /\ response' = [op |-> "create_run_with_steps", error |-> "none",
                    commits |-> 1]
    /\ UNCHANGED <<runs, step_runs, process>>

\* The loop over process.steps and the second commit.
create_run_with_steps_commit_steps ==
    /\ pc = "create_steps"
    /\ step_runs' = [i \in DOMAIN process.steps |->
                       [run_id |-> run.id, step_id |-> process.steps[i].id]
                         @@ _create_step_run_from_template(process.steps[i])]
    /\ pc' = "idle"
    /\ response' = [op |-> "create_run_with_steps", error |-> "none",
                    commits |-> 2]
    /\ UNCHANGED <<run, runs, now, process>>

\* The second commit raising, or the server crashing before it: the handler
\* ends with the first commit made.
create_run_with_steps_fail ==
    /\ pc = "create_steps"
    /\ pc' = "idle"
    /\ response' = [op |-> "create_run_with_steps", error |-> "Exception",
                    commits |-> 1]
    /\ UNCHANGED <<run, runs, step_runs, now, process>>

\* StepService.delete_step on a step no step-run refers to: db.delete(step).
delete_step ==
    /\ pc = "idle"
    /\ \E i \in DOMAIN process.steps :
        /\ \A j \in DOMAIN step_runs : step_runs[j].step_id # process.steps[i].id
        /\ process' = [process EXCEPT !.steps =
                         SubSeq(@, 1, i - 1) \o SubSeq(@, i + 1, Len(@))]
        /\ response' = [op |-> "delete_step", id |-> process.steps[i].id,
                        error |-> "none"]
    /\ UNCHANGED <<run, runs, step_runs, now, pc>>

\* ProcessService.delete_process: the soft delete of the process and its
\* steps; get_process raises for a process already deleted.
delete_process ==
    /\ pc = "idle"
    /\ IF process.deleted_at # None
       THEN /\ response' = [op |-> "delete_process",
                            error |-> "ProcessNotFoundError"]
            /\ UNCHANGED <<process, now>>
       ELSE \E t \in Times :
            /\ t >= now
            /\ now' = t
            /\ process' = [process EXCEPT
                             !.deleted_at = Some(t),
                             !.steps = [i \in DOMAIN @ |->
                                          [@[i] EXCEPT !.deleted_at = Some(t)]]]
            /\ response' = [op |-> "delete_process", error |-> "none"]
    /\ UNCHANGED <<run, runs, step_runs, pc>>

NextCreation ==
    \/ \E run_data \in {LifecycleInput} : create_run_with_steps_commit_run(run_data)
    \/ create_run_with_steps_commit_steps
    \/ create_run_with_steps_fail
    \/ delete_step
    \/ delete_process

SpecCreation == InitCreation /\ [][NextCreation]_vars

(* ===================== claims: neutralization ========================== *)

\* The step just taken is POST /runs/{id}/neutralize.
NeutralizeStep == response'.op = "neutralize_run"

\* C12: neutralization is idempotent: for every run r,
\* neutralize(neutralize(r)) = neutralize(r); and a neutralize request on an
\* already neutralized run raises no error and leaves the row (entity_id,
\* entity_name, metadata, is_neutralized) exactly as it was.
C12_NeutralizeIdempotent ==
    [][/\ \A k \in DOMAIN Table :
            neutralize_run_data(neutralize_run_data(Table[k]))
              = neutralize_run_data(Table[k])
       /\ (NeutralizeStep /\ Table[response'.id].is_neutralized) =>
            /\ Table' = Table
            /\ response'.error = "none"
            /\ response'.success
            /\ response'.was_already_neutralized]_vars

\* A second neutralize request was answered for a run whose metadata kept an
\* entry.
C12_Witness ==
    /\ response.op = "neutralize_run"
    /\ response.was_already_neutralized
    /\ run.is_neutralized
    /\ run.meta # EmptyMeta

\* C13: neutralization preserves the metadata key set: after a run whose
\* metadata values are strings, numbers, booleans or null is neutralized, its
\* metadata has the keys it had before.
C13_KeySetPreserved ==
    [][(NeutralizeStep /\ ~response'.was_already_neutralized) =>
          DOMAIN Table'[response'.id].meta = DOMAIN Table[response'.id].meta]_vars

\* The placeholder of a value's own type.
Placeholder(value) ==
    CASE value.kind = "str" -> JsonValue("str", "[NEUTRALIZED]")
      [] value.kind \in {"int", "float"} -> JsonValue("int", "0")
      [] value.kind = "bool" -> JsonValue("bool", "false")
      [] OTHER -> value

\* C14: neutralization leaves the value of every allow-listed key (category,
\* type, department, status_code) unchanged and replaces the value of every
\* other key by the placeholder of that value's own type ("[NEUTRALIZED]" for
\* a string, 0 for a number, false for a boolean), so that no other key keeps
\* its original string, number or boolean.
C14_TypedPlaceholders ==
    [][(NeutralizeStep /\ ~response'.was_already_neutralized) =>
          LET before == Table[response'.id].meta
              after == Table'[response'.id].meta
          IN \A key \in DOMAIN before \cap DOMAIN after :
               IF key \in safe_keys THEN after[key] = before[key]
               ELSE /\ after[key] = Placeholder(before[key])
                    /\ before[key].kind \in {"str", "int", "float", "bool"}
                         => after[key] # before[key]]_vars

\* C15: in every reachable state, a run with is_neutralized = true has
\* entity_id equal to the placeholder "NEUTRALIZED_<its own id>" and a null
\* entity_name.
C15_NeutralizedHasPlaceholder ==
    \A k \in DOMAIN Table :
        Table[k].is_neutralized =>
            /\ Table[k].entity_id = "NEUTRALIZED_" \o ToString(Table[k].id)
            /\ Table[k].entity_name = None

\* Two runs neutralized, one by request and one by a sweep, next to a run
\* that still carries its entity.
C15_Witness ==
    /\ response.op = "trigger_cleanup"
    /\ response.neutralized = 1
    /\ Cardinality({k \in DOMAIN Table : Table[k].is_neutralized}) = 2
    /\ \E k \in DOMAIN Table :
         ~Table[k].is_neutralized /\ Table[k].entity_name # None

(* ================= claims: the retention lifecycle ===================== *)

\* C16: neutralization is one-way: under neutralize, sweep, soft-delete,
\* restore, step-run update and rerun, a run whose is_neutralized is true
\* keeps it true; and soft-delete and restore never change is_neutralized.
C16_NeutralizedForever ==
    [][\A k \in DOMAIN Table :
          /\ k \in DOMAIN Table'
          /\ Table[k].is_neutralized => Table'[k].is_neutralized
          /\ response'.op \in {"delete_run", "restore_run"} =>
                Table'[k].is_neutralized = Table[k].is_neutralized]_vars

\* A neutralized run has been soft-deleted and restored after its step-run
\* was rerun, and is still neutralized.
C16_Witness ==
    /\ response.op = "restore_run"
    /\ run.is_neutralized
    /\ run.deleted_at = None
    /\ step_runs[1].rerun_count >= 1
    /\ step_runs[1].deleted_at = None

\* The step just taken is POST /runs.
CreateStep ==
    /\ response'.op = "create_process_run"
    /\ Len(Table') = Len(Table) + 1

\* C17: the scheduled deletion time of a created run is null exactly when the
\* process's retention_months is null, and otherwise created_at + 30 *
\* retention_months days, for every integer retention_months, 0 included;
\* calculate_scheduled_deletion gives this same result.
C17_ScheduledDeletion ==
    [][CreateStep =>
          LET new == Table'[Len(Table')]
              expected == IF process.retention_months = None THEN None
                          ELSE Some(new.created_at
                                    + 30 * process.retention_months[1])
          IN /\ new.scheduled_deletion_at = expected
             /\ calculate_scheduled_deletion(process, new.created_at)
                  = expected]_vars

\* C18: retention policy changes are forward-only: no step changes the
\* scheduled_deletion_at of a run that exists, a policy change included, and
\* the only step that writes one is the creation of the run it belongs to.
C18_ForwardOnly ==
    [][/\ \A k \in DOMAIN Table :
            /\ k \in DOMAIN Table'
            /\ Table'[k].scheduled_deletion_at = Table[k].scheduled_deletion_at
       /\ Len(Table') # Len(Table) => CreateStep]_vars

\* The policy was changed to none and back: the run created in between is
\* unscheduled, the older run keeps its day, and the policy is one month.
C18_Witness ==
    /\ response.op = "update_retention"
    /\ process.retention_months = Some(1)
    /\ run.scheduled_deletion_at = Some(1)
    /\ Len(runs) = 2
    /\ runs[2].scheduled_deletion_at = None

\* The step just taken is a retention sweep.
SweepStep == response'.op = "trigger_cleanup"

\* The runs a sweep at time t must not touch.
NotDue(r, t) ==
    \/ r.deleted_at # None
    \/ r.is_neutralized
    \/ r.scheduled_deletion_at = None
    \/ r.scheduled_deletion_at[1] > t

Range(q) == {q[i] : i \in DOMAIN q}

\* C19: a retention sweep modifies only runs that are due when it runs: a run
\* that is soft-deleted, already neutralized, has a null scheduled_deletion_at
\* or one later than now is not returned by get_runs_due_for_neutralization
\* and not changed by neutralize_due_runs.
C19_SweepOnlyDue ==
    [][SweepStep =>
          /\ DOMAIN Table' = DOMAIN Table
          /\ \A k \in DOMAIN Table :
               NotDue(Table[k], now') =>
                  /\ k \notin Range(response'.found)
                  /\ Table'[k] = Table[k]]_vars

\* A sweep neutralized a due run and passed over a soft-deleted run whose day
\* has come and a run whose day has not.
C19_Witness ==
    /\ response.op = "trigger_cleanup"
    /\ response.neutralized >= 1
    /\ \E k \in DOMAIN Table :
         /\ Table[k].deleted_at # None
         /\ ~Table[k].is_neutralized
         /\ Table[k].scheduled_deletion_at # None
         /\ Table[k].scheduled_deletion_at[1] <= now
    /\ \E k \in DOMAIN Table :
         /\ ~Table[k].is_neutralized
         /\ Table[k].scheduled_deletion_at # None
         /\ Table[k].scheduled_deletion_at[1] > now

SweepReturned == response'.op = "trigger_cleanup" /\ response'.error = "none"

\* The step just taken is a sweep that crashed.
SweepCrashed == response'.op = "trigger_cleanup" /\ response'.error = "crash"

\* Row k is unchanged by the step and due at every time from now on.
StaysDue(k) ==
    /\ Table'[k] = Table[k]
    /\ ~Table'[k].is_neutralized
    /\ \A t \in Times : t >= now' => k \in DueRuns(Table', t)

C22_CascadeInSync ==
    \A i \in DOMAIN step_runs : step_runs[i].deleted_at = run.deleted_at

\* The run has been soft-deleted on day 2, both its step-runs with it.
C22_Witness ==
    /\ response.op = "delete_run"
    /\ response.id = 1
    /\ run.deleted_at = Some(2)
    /\ Len(step_runs) = 2
    /\ \A i \in DOMAIN step_runs : step_runs[i].deleted_at = Some(2)

\* C23: run creation is atomic: the commit that stores the run stores its
\* complete set of step-runs, one per template step of the process, and a
\* failure while the step-runs are created leaves neither the run nor any
\* step-run stored.
C23_CreationAtomic ==
    [][/\ (run = NoRun /\ run' # NoRun) =>
            /\ Len(step_runs') = Len(process.steps)
            /\ \A i \in DOMAIN step_runs' :
                 step_runs'[i].step_id = process.steps[i].id
       /\ (response'.op = "create_run_with_steps"
             /\ response'.error # "none") =>
            run' = NoRun /\ step_runs' = <<>>]_vars

\* The step just taken is the second commit of create_run_with_steps.
StepRunsCreated ==
    /\ pc = "create_steps"
    /\ response'.op = "create_run_with_steps"
    /\ response'.error = "none"

\* C24 as claimed: every step-run created, for rerunnable and non-rerunnable
\* template steps alike, has can_rerun equal to the template's is_rerunnable,
\* rerun_config equal to the template's rerun_config, max_reruns equal to the
\* template's rerun_config.max_retries (3 when that key is absent),
\* rerun_count 0 and status pending.
C24_InheritedAlike ==
    [][StepRunsCreated =>
          \A i \in DOMAIN step_runs' :
             LET sr == step_runs'[i]
                 step == process.steps[i]
             IN /\ sr.can_rerun = step.is_rerunnable
                /\ sr.rerun_config = step.rerun_config
                /\ sr.max_reruns = IF step.rerun_config.max_retries = None
                                   THEN 3
                                   ELSE step.rerun_config.max_retries[1]
                /\ sr.rerun_count = 0
                /\ sr.status = "pending"]_vars

\* C24: every step-run created has can_rerun equal to the template's
\* is_rerunnable, rerun_count 0 and status pending; for a rerunnable template
\* rerun_config is the template's rerun_config and max_reruns its max_retries
\* (3 when that key is absent); for a non-rerunnable template rerun_config is
\* empty and max_reruns is 0, whatever the template's rerun_config holds.
C24_InheritedIfRerunnable ==
    [][StepRunsCreated =>
          /\ Len(step_runs') = Len(process.steps)
          /\ \A i \in DOMAIN step_runs' :
               LET sr == step_runs'[i]
                   step == process.steps[i]
               IN /\ sr.can_rerun = step.is_rerunnable
                  /\ sr.rerun_count = 0
                  /\ sr.status = "pending"
                  /\ step.is_rerunnable =>
                       /\ sr.rerun_config = step.rerun_config
                       /\ sr.max_reruns =
                            IF step.rerun_config.max_retries = None
                            THEN 3
                            ELSE step.rerun_config.max_retries[1]
                  /\ ~step.is_rerunnable =>
                       /\ sr.rerun_config = EmptyConfig
                       /\ sr.max_reruns = 0]_vars

\* A run was created for a process whose first step is not rerunnable but
\* carries a rerun_config, and whose second step is rerunnable with one.
C24_Witness ==
    /\ response.op = "create_run_with_steps"
    /\ response.commits = 2
    /\ Len(step_runs) = 2
    /\ ~process.steps[1].is_rerunnable
    /\ process.steps[1].rerun_config = WorkitemConfig
    /\ step_runs[1].max_reruns = 0
    /\ process.steps[2].is_rerunnable
    /\ step_runs[2].rerun_config = WorkitemConfig

\* The ids of the stored ProcessStep rows.
StoredStepIds(proc) == {proc.steps[i].id : i \in DOMAIN proc.steps}

\* C25: no operation removes a Process, ProcessStep, ProcessRun or
\* ProcessStepRun record: the stored records of each kind only grow.
C25_NothingRemoved ==
    [][/\ StoredStepIds(process) \subseteq StoredStepIds(process')
       /\ run # NoRun => run' # NoRun
       /\ Len(step_runs') >= Len(step_runs)]_vars

\* C26: update_step_run and rerun_step of the step-run service on a
\* soft-deleted step-run fail with StepRunNotFoundError and change no stored
\* record.
C26_DeletedIsAbsent ==
    [][\A i \in DOMAIN step_runs :
          (/\ pc = "idle"
           /\ step_runs[i].deleted_at # None
           /\ response'.op \in {"service_update_step_run", "service_rerun_step"}
           /\ response'.id = i)
          => /\ response'.error = "StepRunNotFoundError"
             /\ UNCHANGED <<run, runs, step_runs>>]_vars

(* ============== claims: the run's status and finished_at ================ *)

\* The step just taken is run.update_status() at the end of a service call.
ParentUpdated == pc = "update_parent" /\ pc' = "idle"

\* C27: for a run whose prior status is not cancelled and whose step-runs
\* hold no failed, cancelled or running status, update_status yields running
\* whenever a step-run is pending, every step-run pending included; and once
\* the last pending step-run of a running run is set to success, update_status
\* yields completed with finished_at set.
C27_PendingMeansRunning ==
    [][ParentUpdated =>
          LET statuses == StepStatuses(step_runs)
          IN /\ (/\ run.status # "cancelled"
                 /\ ~InSeq("failed", statuses)
                 /\ ~InSeq("cancelled", statuses)
                 /\ ~InSeq("running", statuses)
                 /\ InSeq("pending", statuses))
                => run'.status = "running"
             /\ (/\ run.status = "running"
                 /\ response.op = "service_update_step_run"
                 /\ \A i \in DOMAIN statuses : statuses[i] = "success")
                => /\ run'.status = "completed"
                   /\ run'.finished_at # None]_vars

\* The third of three step-runs has been set to success after the other
\* two, and the run, started before, is completed with finished_at set.
C27_Witness ==
    /\ pc = "idle"
    /\ response.op = "service_update_step_run"
    /\ response.id = 3
    /\ StepStatuses(step_runs) = <<"success", "success", "success">>
    /\ run.status = "completed"
    /\ run.finished_at # None
    /\ run.started_at # None

\* C29: in every state reachable from run creation by step-run updates and
\* reruns, each followed by update_status, the run's finished_at is set
\* exactly when its status is completed, failed or cancelled.
C29_FinishedIffTerminal ==
    (run.finished_at # None) <=> (run.status \in terminal_statuses)

\* A run that had failed is running again after the rerun of its failed
\* step-run, its finished_at cleared.
C29_Witness ==
    /\ pc = "idle"
    /\ response.op = "service_rerun_step"
    /\ response.error = "none"
    /\ run.status = "running"
    /\ run.finished_at = None
    /\ \E i \in DOMAIN step_runs : step_runs[i].rerun_count = 1

(* ============== claims: metadata of a neutralized run ================== *)

\* C28: after a run has been neutralized, the value of every non-allow-listed
\* metadata key stays what neutralization left, under every later operation
\* on the run, update_run_metadata included.
C28_PlaceholdersStay ==
    [][\A k \in DOMAIN Table :
          Table[k].is_neutralized =>
            \A key \in DOMAIN Table[k].meta \ safe_keys :
               /\ key \in DOMAIN Table'[k].meta
               /\ Table'[k].meta[key] = Table[k].meta[key]]_vars

(* ================= claims: progress of the sweeps ====================== *)

\* C30: if sweeps are invoked again and again and no neutralization raises,
\* every run that is due is eventually neutralized, or soft-deleted and so no
\* longer due, even when more runs are due than the batch holds.
C30_DueEventuallyNeutralized ==
    \A k \in 1..MaxRuns :
       (k \in DueRuns(Table, now))
         ~> (Table[k].is_neutralized \/ Table[k].deleted_at # None)

\* All three runs were due, more than the largest batch, and every one of
\* them has been neutralized by the sweeps.
C30_Witness ==
    /\ response.op = "trigger_cleanup"
    /\ \A k \in DOMAIN Table :
         /\ Table[k].scheduled_deletion_at # None
         /\ Table[k].deleted_at = None
         /\ Table[k].is_neutralized

====
